---- MODULE Spec2Model ----
(***************************************************************************)
(* GenericTransport (openpnm/algorithms/GenericTransport.py): the boundary *)
(* condition store, the cached pure matrix / vector, their working copies, *)
(* and the application of boundary conditions by run.                      *)
(*                                                                         *)
(* Arrays are functions over the pore indices 0..Np-1.  The matrix A is a  *)
(* function over pairs of pores.  Matrix and right-hand-side entries are   *)
(* stored multiplied by Scale, so that the mean of the diagonal (a         *)
(* division by Np at every application of the BCs) stays an exact integer. *)
(***************************************************************************)
EXTENDS Integers, Sequences, FiniteSets, TLC

\* ------------------------------------------------------------------ bounds
Np == 5            \* number of pores of the network
MaxBCPores == 3    \* BC calls name pores among the first MaxBCPores pores
MaxVal == 2        \* BC values handed to set_value_BC / set_rate_BC: 1..MaxVal
MaxG == 2          \* throat conductances: 1..MaxG
MaxVec == 2        \* longest vector of values handed to a BC call
MaxOps == 3        \* number of operations called on one instance

\* ------------------------------------------------------- network and phase
Ps == 0 .. (Np - 1)                      \* self.Ps
Ts == 0 .. (Np - 2)                      \* throats of a chain of Np pores
conns == [t \in Ts |-> <<t, t + 1>>]     \* network['throat.conns']
NaN == -1                                \* np.nan, the "unset" sentinel
Vals == 1 .. MaxVal
GVals == 1 .. MaxG

RECURSIVE Pow(_, _)
Pow(x, k) == IF k = 0 THEN 1 ELSE x * Pow(x, k - 1)
\* the scenario of the chain with a BC at each end takes one operation more
ChainOps == MaxOps + 1
\* every application of the BCs divides by Np once
Scale == Pow(Np, ChainOps)

VARIABLES
    bc_value,    \* self['pore.bc_value']
    bc_rate,     \* self['pore.bc_rate']
    g,           \* phase[settings['conductance']], one value per throat
    settings,    \* [phase, cache_A, cache_b, solver_family, solver_type]
    matrices,    \* the matrix objects: [pure |-> ..., work |-> ...]
    vectors,     \* the vector objects: [pure |-> ..., work |-> ...]
    A_ref,       \* self._A      : "none", or the object it refers to
    pure_A_ref,  \* self._pure_A
    b_ref,       \* self._b
    pure_b_ref,  \* self._pure_b
    quantity,    \* self[settings['quantity']]: absent, or the field run stored
    built_g,     \* the conductance read when the pure matrix was last built
    nops,        \* number of operations called so far
    max_ops,     \* number of operations the caller makes on the instance
    call,        \* the last operation called and its outcome
    ret,         \* what the last operation returned to its caller
    solver_call  \* the backend invocation the last operation made, if any

vars == <<bc_value, bc_rate, g, settings, matrices, vectors, A_ref, pure_A_ref,
          b_ref, pure_b_ref, quantity, built_g, nops, max_ops, call, ret,
          solver_call>>

sysVars == <<matrices, vectors, A_ref, pure_A_ref, b_ref, pure_b_ref, built_g>>

\* ------------------------------------------------------------ numpy helpers
isfinite(x) == x # NaN

Range(s) == {s[i] : i \in DOMAIN s}

RECURSIVE SortedSeq(_)
SortedSeq(S) ==
    IF S = {} THEN <<>>
    ELSE LET m == CHOOSE x \in S : \A y \in S : x <= y
         IN <<m>> \o SortedSeq(S \ {m})

\* np.intersect1d / np.setdiff1d: sorted, unique
intersect1d(a, b) == SortedSeq(Range(a) \cap Range(b))
setdiff1d(a, b) == SortedSeq(Range(a) \ Range(b))

\* self.Ps[mask]
MaskIndices(arr) == SortedSeq({p \in Ps : isfinite(arr[p])})

\* numpy broadcasting of a one-dimensional values array onto an index array
Broadcasts(values, idx) == Len(values) = 1 \/ Len(values) = Len(idx)
ValueAt(values, i) == IF Len(values) = 1 THEN values[1] ELSE values[i]

\* the position of p in idx that a fancy-indexed write keeps (the last one)
LastPos(idx, p) == CHOOSE i \in DOMAIN idx :
                      idx[i] = p /\ \A j \in DOMAIN idx : idx[j] = p => j <= i

NanAdd(x, y) == IF x = NaN \/ y = NaN THEN NaN ELSE x + y

\* arr[idx] = values
FancyAssign(arr, idx, values) ==
    [p \in Ps |-> IF p \in Range(idx) THEN ValueAt(values, LastPos(idx, p))
                  ELSE arr[p]]

\* (variant: the addition written as an assignment)
FancyAddAssigns(arr, idx, values) ==
    [p \in Ps |-> IF p \in Range(idx) THEN ValueAt(values, LastPos(idx, p))
                  ELSE arr[p]]

\* arr[idx] += values
FancyAdd(arr, idx, values) ==
    [p \in Ps |-> IF p \in Range(idx)
                  THEN NanAdd(arr[p], ValueAt(values, LastPos(idx, p)))
                  ELSE arr[p]]

AllNaN == [p \in Ps |-> NaN]         \* self['pore.bc_...'] = np.nan

\* --------------------------------------------------------- call arguments
\* pores: index arrays without repetition, in any order
BCPs == 0 .. (MaxBCPores - 1)
PoreSeqs == {s \in UNION {[1 .. n -> BCPs] : n \in 0 .. MaxBCPores} :
                \A i, j \in DOMAIN s : s[i] = s[j] => i = j}
\* values: a scalar (one element) or a vector of 2..MaxVec elements
ValueSeqs == UNION {[1 .. n -> Vals] : n \in 1 .. MaxVec}
Modes == {"merge", "overwrite"}
BCTypes == {"all", "value", "rate"}

\* op: the method called; mode: its mode / bctype argument; npores, size: the
\* number of pores and of values handed over; err: "" or the exception raised;
\* direct: whether the caller has ever invoked a private builder (_build_A,
\* _build_b) itself.
Call(op, mode, npores, size, err, direct) ==
    [op |-> op, mode |-> mode, npores |-> npores, size |-> size, err |-> err,
     direct |-> direct]

\* one more operation is called
Called == nops < max_ops /\ nops' = nops + 1 /\ max_ops' = max_ops

\* the operation returns None and invokes no solver backend
NoRet == [kind |-> "none"]
NoSolverCall == [invoked |-> FALSE]
Returns(r) == ret' = r /\ solver_call' = NoSolverCall

\* ------------------------------------------------------------- _set_BC
SizeMismatch(pores, values) == Len(values) > 1 /\ Len(values) # Len(pores)

\* (variant: the array is reset in every mode)
ClearedAlways(arr, mode) == AllNaN

\* self['pore.bc_' + bctype] = np.nan when mode is 'overwrite'
Cleared(arr, mode) == IF mode = "overwrite" THEN AllNaN ELSE arr

\* (variant: the size check made after the array was reset)
SetValueResultLateCheck(arr, pores, values, mode) ==
    IF SizeMismatch(pores, values)
    THEN [arr |-> Cleared(arr, mode), err |-> "size"]
    ELSE [arr |-> FancyAssign(Cleared(arr, mode), pores, values), err |-> ""]

\* _set_BC with bctype 'value': the array it leaves and the exception raised
SetValueResult(arr, pores, values, mode) ==
    IF SizeMismatch(pores, values)
    THEN [arr |-> arr, err |-> "size"]
    ELSE [arr |-> FancyAssign(Cleared(arr, mode), pores, values), err |-> ""]

\* _set_BC with bctype 'rate'
SetRateResult(arr, pores, values, mode) ==
    IF SizeMismatch(pores, values)
    THEN [arr |-> arr, err |-> "size"]
    ELSE LET bc_rate_current == MaskIndices(arr)     \* mask taken before the clear
             intersect == intersect1d(bc_rate_current, pores)
             rest == setdiff1d(pores, intersect)
             a0 == Cleared(arr, mode)
             a1 == FancyAdd(a0, intersect, values)
         IN  IF ~Broadcasts(values, intersect)
             THEN [arr |-> a0, err |-> "broadcast"]
             ELSE IF ~Broadcasts(values, rest)
             THEN [arr |-> a1, err |-> "broadcast"]
             ELSE [arr |-> FancyAssign(a1, rest, values), err |-> ""]

set_value_BC(pores, values, mode) ==
    LET r == SetValueResult(bc_value, pores, values, mode)
    IN  /\ Called
        /\ bc_value' = r.arr
        /\ call' = Call("set_value_BC", mode, Len(pores), Len(values), r.err, call.direct)
        /\ Returns(NoRet)
        /\ UNCHANGED <<bc_rate, g, settings, sysVars, quantity>>

set_rate_BC(pores, values, mode) ==
    LET r == SetRateResult(bc_rate, pores, values, mode)
    IN  /\ Called
        /\ bc_rate' = r.arr
        /\ call' = Call("set_rate_BC", mode, Len(pores), Len(values), r.err, call.direct)
        /\ Returns(NoRet)
        /\ UNCHANGED <<bc_value, g, settings, sysVars, quantity>>

\* ------------------------------------------------------------- remove_BC
\* none: pores is None
RemoveTarget(pores, none) == IF none THEN SortedSeq(Ps) ELSE pores
\* (variant: 'all' taken as 'value')
RemoveKindsValueOnly(bctype) == IF bctype = "all" THEN {"value"} ELSE {bctype}

RemoveKinds(bctype) == IF bctype = "all" THEN {"value", "rate"} ELSE {bctype}

remove_BC(pores, none, bctype) ==
    LET target == RemoveTarget(pores, none)
        kinds == RemoveKinds(bctype)
    IN  /\ Called
        /\ bc_value' = IF "value" \in kinds
                       THEN FancyAssign(bc_value, target, <<NaN>>) ELSE bc_value
        /\ bc_rate' = IF "rate" \in kinds
                      THEN FancyAssign(bc_rate, target, <<NaN>>) ELSE bc_rate
        /\ call' = Call("remove_BC", bctype, Len(target), 0, "", call.direct)
        /\ Returns(NoRet)
        /\ UNCHANGED <<g, settings, sysVars, quantity>>

\* ------------------------------------------------------------- reset
\* settings['quantity'] is not among the keys of the instance
NoField == [present |-> FALSE]

reset(bcs, results, phase) ==
    /\ Called
    /\ bc_value' = IF bcs THEN AllNaN ELSE bc_value
    /\ bc_rate' = IF bcs THEN AllNaN ELSE bc_rate
    /\ quantity' = IF results THEN NoField ELSE quantity
    /\ settings' = IF phase THEN [settings EXCEPT !.phase = FALSE] ELSE settings
    /\ call' = Call("reset", "", 0, 0, "", call.direct)
    /\ Returns(NoRet)
    /\ UNCHANGED <<g, sysVars>>

\* ------------------------------------------------- matrices and vectors
NoObj == <<>>                        \* no object stored

RECURSIVE SumOver(_, _)
SumOver(S, f) == IF S = {} THEN 0
                 ELSE LET x == CHOOSE y \in S : TRUE
                      IN f[x] + SumOver(S \ {x}, f)

Zeros == [p \in Ps |-> 0]            \* np.zeros(shape=self.Np)

\* network.create_adjacency_matrix(weights=g): entry (i, j) and (j, i) of every
\* throat carry its conductance, parallel throats add up
Adjacency(gg) ==
    [i \in Ps |-> [j \in Ps |->
        SumOver({t \in Ts : i # j /\ Range(conns[t]) = {i, j}}, gg)]]

\* spgr.laplacian(am): degree on the diagonal, minus the weights elsewhere
Laplacian(gg) ==
    LET am == Adjacency(gg)
    IN  [i \in Ps |-> [j \in Ps |->
            IF i = j THEN Scale * SumOver(Ps \ {i}, am[i])
            ELSE -(Scale * am[i][j])]]

diagonal(A) == [p \in Ps |-> A[p][p]]
mean(v) == SumOver(Ps, v) \div Np

\* the attributes of the instance that hold the linear system
Sys == [matrices |-> matrices, vectors |-> vectors, A_ref |-> A_ref,
        pure_A_ref |-> pure_A_ref, b_ref |-> b_ref, pure_b_ref |-> pure_b_ref,
        built_g |-> built_g, err |-> ""]

\* (variant: the working attribute refers to the cached object itself)
AssignAlias(store, src) == [store |-> store, ref |-> src]

\* self.A = self._pure_A.copy(), self.b = self._pure_b.copy(): a new object
\* with the content of `src`, and the reference to it
AssignCopy(store, src) ==
    [store |-> [store EXCEPT !.work = store[src]], ref |-> "work"]

\* (variant: the cached matrix is never reused)
_build_A_rebuilding(s) ==
    IF ~settings.phase
    THEN [s EXCEPT !.pure_A_ref = "none", !.matrices.pure = NoObj,
                   !.built_g = NoObj, !.err = "phase"]
    ELSE LET s1 == [s EXCEPT !.pure_A_ref = "pure",
                             !.matrices.pure = Laplacian(g),
                             !.built_g = g]
             c == AssignCopy(s1.matrices, s1.pure_A_ref)
         IN  [s1 EXCEPT !.matrices = c.store, !.A_ref = c.ref]

_build_A(s) ==
    LET kept == IF settings.cache_A THEN s.pure_A_ref ELSE "none"
    IN  IF kept = "none" /\ ~settings.phase
        THEN [s EXCEPT !.pure_A_ref = "none", !.matrices.pure = NoObj,
                       !.built_g = NoObj, !.err = "phase"]
        ELSE LET s1 == IF kept = "none"
                       THEN [s EXCEPT !.pure_A_ref = "pure",
                                      !.matrices.pure = Laplacian(g),
                                      !.built_g = g]
                       ELSE s
                 c == AssignCopy(s1.matrices, s1.pure_A_ref)
             IN  [s1 EXCEPT !.matrices = c.store, !.A_ref = c.ref]

_build_b(s) ==
    LET kept == IF settings.cache_b THEN s.pure_b_ref ELSE "none"
        s1 == IF kept = "none"
              THEN [s EXCEPT !.pure_b_ref = "pure", !.vectors.pure = Zeros]
              ELSE s
        c == AssignCopy(s1.vectors, s1.pure_b_ref)
    IN  [s1 EXCEPT !.vectors = c.store, !.b_ref = c.ref]

_get_A(s) == IF s.A_ref = "none" THEN _build_A(s) ELSE s
_get_b(s) == IF s.b_ref = "none" THEN _build_b(s) ELSE s

\* ------------------------------------------------------------ _apply_BCs
\* self.b[ind] = self['pore.bc_rate'][ind]
RateIntoB(b, rate) ==
    [p \in Ps |-> IF isfinite(rate[p]) THEN Scale * rate[p] ELSE b[p]]

\* (variant: only the rows of the BC pores are replaced, the columns are kept)
ValueEliminationRowsOnly(A, b, value) ==
    LET f == mean(diagonal(A))
        ind == {p \in Ps : isfinite(value[p])}
    IN  [b |-> [p \in Ps |-> IF p \in ind THEN value[p] * f ELSE b[p]],
         A |-> [i \in Ps |-> [j \in Ps |->
                   IF i \in ind THEN (IF i = j THEN f ELSE 0) ELSE A[i][j]]]]

\* the 'pore.bc_value' branch, on the objects A and b
ValueElimination(A, b, value) ==
    LET f == mean(diagonal(A))
        ind == {p \in Ps : isfinite(value[p])}
        x_BC == [p \in Ps |-> IF p \in ind THEN value[p] ELSE 0]
        Ax == [k \in Ps |-> SumOver(Ps, [j \in Ps |-> A[k][j] * x_BC[j]])]
    IN  [b |-> [p \in Ps |-> IF p \in ind THEN value[p] * f ELSE b[p] - Ax[p]],
         A |-> [i \in Ps |-> [j \in Ps |->
                   IF i \in ind \/ j \in ind
                   THEN (IF i = j THEN f ELSE 0)
                   ELSE A[i][j]]]]

\* (variant: the rates are written into b after the Value branch)
_apply_BCs_rates_last(s) ==
    LET s1 == _get_b(s)
        s3 == _get_A(s1)
    IN  IF s3.err # "" THEN s3
        ELSE LET r == ValueElimination(s3.matrices[s3.A_ref],
                                       s3.vectors[s3.b_ref], bc_value)
             IN  [s3 EXCEPT !.matrices[s3.A_ref] = r.A,
                            !.vectors[s3.b_ref] = RateIntoB(r.b, bc_rate)]

_apply_BCs(s) ==
    LET s1 == _get_b(s)
        s2 == [s1 EXCEPT !.vectors[s1.b_ref] = RateIntoB(@, bc_rate)]
        s3 == _get_A(s2)
    IN  IF s3.err # "" THEN s3
        ELSE LET r == ValueElimination(s3.matrices[s3.A_ref],
                                       s3.vectors[s3.b_ref], bc_value)
             IN  [s3 EXCEPT !.matrices[s3.A_ref] = r.A,
                            !.vectors[s3.b_ref] = r.b]

SetSys(s) ==
    /\ matrices' = s.matrices
    /\ vectors' = s.vectors
    /\ A_ref' = s.A_ref
    /\ pure_A_ref' = s.pure_A_ref
    /\ b_ref' = s.b_ref
    /\ pure_b_ref' = s.pure_b_ref
    /\ built_g' = s.built_g

\* ------------------------------------------------- the linear solve
\* What a backend computes: the x with A x = b, in exact rational arithmetic.
\* A field of numbers is [num, den]: entry p is num[p] / den, in lowest terms;
\* den = 0 stands for a field that is no solution (nan, or a broken iterate).
Abs(x) == IF x < 0 THEN -x ELSE x

RECURSIVE GCD(_, _)
GCD(a, b) == IF b = 0 THEN a ELSE GCD(b, a % b)
LCM(a, b) == (a \div GCD(a, b)) * b

Cols == 0 .. Np                      \* column Np of a row holds its b entry

RECURSIVE GCDOver(_, _)
GCDOver(S, row) ==
    IF S = {} THEN 0
    ELSE LET c == CHOOSE y \in S : TRUE
         IN GCD(Abs(row[c]), GCDOver(S \ {c}, row))

RECURSIVE LCMOver(_, _)
LCMOver(S, d) ==
    IF S = {} THEN 1
    ELSE LET c == CHOOSE y \in S : TRUE
         IN LCM(d[c], LCMOver(S \ {c}, d))

DivRow(row, d) == IF d = 0 THEN row ELSE [c \in Cols |-> row[c] \div d]
Reduced(row) == DivRow(row, GCDOver(Cols, row))
Augmented(A, b) ==
    [i \in Ps |-> Reduced([c \in Cols |-> IF c = Np THEN b[i] ELSE A[i][c]])]

\* Gauss-Jordan elimination, one column after the other
Candidates(M, k, used) == {r \in Ps \ used : M[r][k] # 0}
Pivot(cand) == CHOOSE x \in cand : \A y \in cand : x <= y
Combine(ri, rr, k) == Reduced([c \in Cols |-> rr[k] * ri[c] - ri[k] * rr[c]])
Step(M, k, r) ==
    [i \in Ps |-> IF i = r \/ M[i][k] = 0 THEN M[i] ELSE Combine(M[i], M[r], k)]

RECURSIVE Eliminate(_, _, _)
EliminateAt(M, k, used, cand) ==
    IF cand = {} THEN [ok |-> FALSE, M |-> M]
    ELSE Eliminate(Step(M, k, Pivot(cand)), k + 1, used \cup {Pivot(cand)})
Eliminate(M, k, used) ==
    IF k = Np THEN [ok |-> TRUE, M |-> M]
    ELSE EliminateAt(M, k, used, Candidates(M, k, used))

PivotRows(M) == [k \in Ps |-> CHOOSE r \in Ps : M[r][k] # 0]
Dens(M, row) == [k \in Ps |-> Abs(M[row[k]][k])]
Nums(M, row) ==
    [k \in Ps |-> IF M[row[k]][k] < 0 THEN -M[row[k]][Np] ELSE M[row[k]][Np]]
OverDen(n, d, den) ==
    [num |-> [k \in Ps |-> n[k] * (den \div d[k])], den |-> den]
Solution(M, row) ==
    OverDen(Nums(M, row), Dens(M, row), LCMOver(Ps, Dens(M, row)))

\* a singular matrix has no solution: the factorisation fills x with nan
Unusable == [num |-> Zeros, den |-> 0]
SolveFrom(e) == IF e.ok THEN Solution(e.M, PivotRows(e.M)) ELSE Unusable
Solve(A, b) == SolveFrom(Eliminate(Augmented(A, b), 0, {}))

\* The array a backend returned for the system (A, b).  The state keeps the
\* system; FieldValues gives the numbers.  usable: whether the backend reached
\* the solution.
Field(A, b, usable) == [present |-> TRUE, A |-> A, b |-> b, usable |-> usable]
FieldValues(q) == IF q.usable THEN Solve(q.A, q.b) ELSE Unusable

\* ---------------------------------------------------------------- _solve
Families == {"scipy", "petsc", "pyamg"}
SolverTypes == {"spsolve", "cg", "gmres"}
iterative == {"bicg", "bicgstab", "cg", "cgs", "gmres", "lgmres", "minres",
              "gcrotmk", "qmr"}

\* op.utils.is_symmetric
is_symmetric(A) == \A i, j \in Ps : A[i][j] = A[j][i]

\* the reads of self.A and self.b that _solve makes, in their order: lines 546
\* and 547 when no A (b) is passed, then _get_atol (self.b), _get_rtol (self.A,
\* self.b) and the symmetry check (self.A); the tolerances are the default None
ThenGetA(s) == IF s.err # "" THEN s ELSE _get_A(s)
ThenGetB(s) == IF s.err # "" THEN s ELSE _get_b(s)
Fetched(s, A) == IF A = NoObj THEN ThenGetB(_get_A(s)) ELSE ThenGetA(_get_b(s))

\* the backend invocation: the initial guess handed over (zeros for None, line
\* 551), whether the backend is one of scipy's iterative solvers, and the
\* status it reported then
SolverCall(x0, exit_code) ==
    [invoked |-> TRUE,
     x0 |-> IF x0 = NoObj THEN Zeros ELSE x0,
     iterative |-> settings.solver_family = "scipy"
                   /\ settings.solver_type \in iterative,
     status |-> IF settings.solver_family = "scipy"
                   /\ settings.solver_type \in iterative
                THEN exit_code ELSE 0]

\* Exception(f'Solver did not converge, exit code: {exit_code}')
DidNotConverge(exit_code) == "converge " \o ToString(exit_code)

\* A, b, x0: the arguments, NoObj for None.  exit_code: the status an
\* iterative backend reports (for the other backends, unseen by the caller:
\* 0 when they reach the solution).  installed: whether the package of the
\* petsc / pyamg family can be imported.
_solve(s, A, b, x0, exit_code, installed) ==
    LET s1 == Fetched(s, A)
        family == settings.solver_family
        direct == family = "scipy" /\ settings.solver_type \notin iterative
        err == IF s1.err # "" THEN s1.err
               ELSE IF settings.solver_type = "cg"
                       /\ ~is_symmetric(s1.matrices[s1.A_ref]) THEN "symmetry"
               ELSE IF family = "scipy"
               THEN (IF ~direct /\ exit_code > 0 THEN DidNotConverge(exit_code)
                     ELSE "")
               ELSE (IF ~installed THEN "missing" ELSE "")
    IN  [s |-> s1,
         err |-> err,
         solver |-> IF err \in {"phase", "symmetry", "missing"}
                    THEN NoSolverCall ELSE SolverCall(x0, exit_code),
         x |-> IF err # "" THEN NoField
               ELSE Field(IF A = NoObj THEN s1.matrices[s1.A_ref] ELSE A,
                          IF b = NoObj THEN s1.vectors[s1.b_ref] ELSE b,
                          direct \/ exit_code = 0)]

\* ------------------------------------------------------------------- run
\* _run_generic: x0 is replaced by zeros before the solve
\* s: the system _apply_BCs left
SolveApplied(s, exit_code, installed) ==
    IF s.err # ""
    THEN [s |-> s, err |-> s.err, solver |-> NoSolverCall, x |-> NoField]
    ELSE _solve(s, NoObj, NoObj, Zeros, exit_code, installed)

_run_generic(x0, exit_code, installed) ==
    SolveApplied(_apply_BCs(Sys), exit_code, installed)

\* (variant: the field is assigned whatever the solve did)
RunOutcomeAssigning(r) ==
    /\ SetSys(r.s)
    /\ quantity' = r.x
    /\ call' = Call("run", "", 0, 0, r.err, call.direct)
    /\ ret' = NoRet
    /\ solver_call' = r.solver

\* r: what _run_generic did; the field is stored when nothing was raised
RunOutcome(r) ==
    /\ SetSys(r.s)
    /\ quantity' = IF r.err = "" THEN r.x ELSE quantity
    /\ call' = Call("run", "", 0, 0, r.err, call.direct)
    /\ ret' = NoRet
    /\ solver_call' = r.solver

run(x0, exit_code, installed) ==
    /\ Called
    /\ RunOutcome(_run_generic(x0, exit_code, installed))
    /\ UNCHANGED <<bc_value, bc_rate, g, settings>>

\* r: what _solve did; x is handed back to the caller
SolveOutcome(r) ==
    /\ SetSys(r.s)
    /\ call' = Call("_solve", "", 0, 0, r.err, call.direct)
    /\ ret' = IF r.err = "" THEN [kind |-> "field", field |-> r.x] ELSE NoRet
    /\ solver_call' = r.solver

\* a caller (a subclass) invokes _solve itself
solve(A, b, x0, exit_code, installed) ==
    /\ Called
    /\ SolveOutcome(_solve(Sys, A, b, x0, exit_code, installed))
    /\ UNCHANGED <<bc_value, bc_rate, g, settings, quantity>>

\* self.A = A: the setter of the property
set_A(A) ==
    /\ Called
    /\ matrices' = [matrices EXCEPT !.work = A]
    /\ A_ref' = "work"
    /\ call' = Call("_set_A", "", 0, 0, "", TRUE)
    /\ Returns(NoRet)
    /\ UNCHANGED <<bc_value, bc_rate, g, settings, vectors, pure_A_ref, b_ref,
                   pure_b_ref, built_g, quantity>>

\* ------------------------------------------------------------ set_solver
\* "None" for an argument left out: the setting is kept
set_solver(solver_family, solver_type) ==
    /\ Called
    /\ settings' = [settings EXCEPT
          !.solver_family = IF solver_family = "None" THEN @ ELSE solver_family,
          !.solver_type = IF solver_type = "None" THEN @ ELSE solver_type]
    /\ call' = Call("set_solver", "", 0, 0, "", call.direct)
    /\ Returns(NoRet)
    /\ UNCHANGED <<bc_value, bc_rate, g, sysVars, quantity>>

\* ------------------------------------------------------- results, rate
\* an operation that reads the instance: no attribute changes
Reads(op, mode, npores, size, err) ==
    /\ Called
    /\ call' = Call(op, mode, npores, size, err, call.direct)
    /\ solver_call' = NoSolverCall
    /\ UNCHANGED <<bc_value, bc_rate, g, settings, sysVars, quantity>>

ResultsError == IF ~quantity.present THEN "key" ELSE ""

results ==
    /\ Reads("results", "", 0, 0, ResultsError)
    /\ ret' = IF ResultsError = "" THEN [kind |-> "field", field |-> quantity]
              ELSE NoRet

\* Qt = np.diff(np.flip(g) * X12): per throat, g * (X[P2] - X[P1]); the
\* conductance has one value per throat (g.size == Nt)
\* (variant: the difference taken the other way round)
ThroatRatesReversed(X, gg) ==
    [t \in Ts |-> gg[t] * (X[conns[t][1]] - X[conns[t][2]])]

ThroatRates(X, gg) ==
    [t \in Ts |-> gg[t] * (X[conns[t][2]] - X[conns[t][1]])]

\* np.add.at(Qp, P12[:, 0], -Qt); np.add.at(Qp, P12[:, 1], Qt)
\* (variant: plain fancy-indexed assignments, nothing accumulates)
PoreRatesAssigned(Qt) ==
    [p \in Ps |->
        IF \E t \in Ts : conns[t][2] = p
        THEN Qt[CHOOSE t \in Ts : conns[t][2] = p]
        ELSE IF \E t \in Ts : conns[t][1] = p
        THEN -Qt[CHOOSE t \in Ts : conns[t][1] = p]
        ELSE 0]

PoreRates(Qt) ==
    [p \in Ps |-> SumOver({t \in Ts : conns[t][2] = p}, Qt)
                  - SumOver({t \in Ts : conns[t][1] = p}, Qt)]

RECURSIVE SumSeq(_)
SumSeq(q) == IF q = <<>> THEN 0 ELSE Head(q) + SumSeq(Tail(q))

\* the exception rate raises, in the order of its statements
RateError(pores, throats) ==
    IF ~settings.phase THEN "phase"
    ELSE IF ~quantity.present THEN "key"
    ELSE IF Len(throats) > 0 /\ Len(pores) > 0 THEN "input"
    ELSE IF Len(throats) = 0 /\ Len(pores) = 0 THEN "input"
    ELSE ""

Grouped(R, mode) == IF mode = "group" THEN <<SumSeq(R)>> ELSE R

\* R of the field X = [num, den]: the numerators over the denominator of X
RateOf(X, pores, throats, mode) ==
    [kind |-> "rate",
     num |-> IF X.den = 0 THEN <<>>
             ELSE IF Len(throats) > 0
             THEN Grouped([k \in DOMAIN throats |->
                             Abs(ThroatRates(X.num, g)[throats[k]])], mode)
             ELSE Grouped([k \in DOMAIN pores |->
                             PoreRates(ThroatRates(X.num, g))[pores[k]]], mode),
     den |-> X.den]

\* X: the numbers of self[settings['quantity']], read at line 687
RateResult(X, pores, throats, mode) ==
    IF RateError(pores, throats) # "" THEN NoRet
    ELSE RateOf(X, pores, throats, mode)

rate(X, pores, throats, mode) ==
    /\ Reads("rate", mode, Len(pores), Len(throats), RateError(pores, throats))
    /\ ret' = RateResult(X, pores, throats, mode)

\* --------------------------------------------------------- _calc_eff_prop
\* np.unique(self['pore.bc_value'][Ps]), ascending
BCs == SortedSeq({bc_value[p] : p \in Ps} \ {NaN})
Dx == [i \in 1 .. (Len(BCs) - 1) |-> BCs[i + 1] - BCs[i]]
_get_inlets == SortedSeq({p \in Ps : bc_value[p] = BCs[Len(BCs)]})
_get_outlets == SortedSeq({p \in Ps : bc_value[p] = BCs[1]})

\* network['pore.coords'] of the chain: pore p at (p, 0, 0)
Extent == <<Np - 1, 0, 0>>           \* np.ptp(coords, axis=0)
SetMin(S) == CHOOSE x \in S : \A y \in S : x <= y
\* the distance from an outlet to its nearest inlet, the smallest one
_get_domain_length(inlets) ==
    SetMin({SetMin({Abs(_get_outlets[o] - inlets[i]) : i \in DOMAIN inlets}) :
              o \in DOMAIN _get_outlets})

\* none: inlets is None.  domain_area, domain_length: 0 stands for None.
Inlets(inlets, none) == IF none THEN _get_inlets ELSE inlets

\* (variant: the presence of the quantity field is not checked first)
EffPropErrorUnchecked(inlets, none, domain_area, domain_length) ==
    IF none /\ Len(BCs) = 0 THEN "empty"
    ELSE IF RateError(Inlets(inlets, none), <<>>) # ""
    THEN RateError(Inlets(inlets, none), <<>>)
    ELSE IF domain_area = 0 /\ \E d \in DOMAIN Extent : Extent[d] = 0
    THEN "geometry"
    ELSE IF domain_length = 0 /\ Len(BCs) = 0 THEN "empty"
    ELSE ""

EffPropError(inlets, none, domain_area, domain_length) ==
    IF ~quantity.present THEN "not run"
    ELSE IF none /\ Len(BCs) = 0 THEN "empty"
    ELSE IF RateError(Inlets(inlets, none), <<>>) # ""
    THEN RateError(Inlets(inlets, none), <<>>)
    ELSE IF domain_area = 0 /\ \E d \in DOMAIN Extent : Extent[d] = 0
    THEN "geometry"
    ELSE IF domain_length = 0 /\ Len(BCs) = 0 THEN "empty"
    ELSE ""

\* D = np.sum(flow) * domain_length / domain_area / Dx, one entry per Dx
EffProp(flow, area, length) ==
    [kind |-> "eff",
     num |-> SumSeq(flow.num) * length,
     den |-> [i \in DOMAIN Dx |-> flow.den * area * Dx[i]]]

EffPropResult(X, inlets, domain_area, domain_length) ==
    EffProp(RateResult(X, inlets, <<>>, "group"), domain_area,
            IF domain_length = 0 THEN _get_domain_length(inlets)
            ELSE domain_length)

\* X: the numbers of self[settings['quantity']], read by rate
_calc_eff_prop(X, inlets, none, domain_area, domain_length) ==
    /\ Reads("_calc_eff_prop", "", 0, 0,
             EffPropError(inlets, none, domain_area, domain_length))
    /\ ret' = IF EffPropError(inlets, none, domain_area, domain_length) # ""
              THEN NoRet
              ELSE EffPropResult(X, Inlets(inlets, none), domain_area,
                                 domain_length)

\* the caller (a subclass, a user) invokes a builder itself
build_A ==
    LET s == _build_A(Sys)
    IN  /\ Called
        /\ SetSys(s)
        /\ call' = Call("_build_A", "", 0, 0, s.err, TRUE)
        /\ Returns(NoRet)
        /\ UNCHANGED <<bc_value, bc_rate, g, settings, quantity>>

build_b ==
    LET s == _build_b(Sys)
    IN  /\ Called
        /\ SetSys(s)
        /\ call' = Call("_build_b", "", 0, 0, s.err, TRUE)
        /\ Returns(NoRet)
        /\ UNCHANGED <<bc_value, bc_rate, g, settings, quantity>>

\* the phase's conductance values are recalculated
regenerate(gg) ==
    /\ Called
    /\ gg # g
    /\ g' = gg
    /\ call' = Call("regenerate", "", 0, 0, "", call.direct)
    /\ Returns(NoRet)
    /\ UNCHANGED <<bc_value, bc_rate, settings, sysVars, quantity>>

\* ------------------------------------------------------------------ Init
\* __init__: no matrix or vector yet, both BC arrays unset; the caching flags
\* are the ones handed to the constructor in `settings`
Init ==
    /\ bc_value = AllNaN
    /\ bc_rate = AllNaN
    /\ g = [t \in Ts |-> 1]
    /\ settings \in [phase : {TRUE}, cache_A : BOOLEAN, cache_b : BOOLEAN,
                    solver_family : {"scipy"}, solver_type : {"spsolve"}]
    /\ matrices = [pure |-> NoObj, work |-> NoObj]
    /\ vectors = [pure |-> NoObj, work |-> NoObj]
    /\ A_ref = "none"
    /\ pure_A_ref = "none"
    /\ b_ref = "none"
    /\ pure_b_ref = "none"
    /\ quantity = NoField
    /\ built_g = NoObj
    /\ nops = 0
    /\ max_ops \in {MaxOps, ChainOps}
    /\ call = Call("init", "", 0, 0, "", FALSE)
    /\ ret = NoRet
    /\ solver_call = NoSolverCall

\* the arguments the operations are called with
SortedPores == {SortedSeq(S) : S \in SUBSET BCPs}
Scalars == {<<v>> : v \in Vals}

\* scalar BC values on index arrays in ascending order
SetValueBC == \E pores \in SortedPores, values \in Scalars, mode \in Modes :
                 set_value_BC(pores, values, mode)
SetRateBC == \E pores \in SortedPores, values \in Scalars, mode \in Modes :
                 set_rate_BC(pores, values, mode)
\* scalar and vector BC values on index arrays in any order
SetValueBCAny == \E pores \in PoreSeqs, values \in ValueSeqs, mode \in Modes :
                 set_value_BC(pores, values, mode)
SetRateBCAny == \E pores \in PoreSeqs, values \in ValueSeqs, mode \in Modes :
                 set_rate_BC(pores, values, mode)
RemoveBC == \E none \in BOOLEAN, bctype \in BCTypes :
               \E pores \in (IF none THEN {<<>>} ELSE SortedPores) :
                 remove_BC(pores, none, bctype)
Reset == \E bcs \in BOOLEAN, res \in BOOLEAN, phase \in BOOLEAN :
                 reset(bcs, res, phase)
\* x0: None, or a guess of the caller's
X0s == {NoObj, [p \in Ps |-> 1]}
ExitCodes == -1 .. 1
\* run() under the default solver: the direct factorisation reports no status
\* and needs no optional package
Run == \E x0 \in X0s : run(x0, 0, TRUE)
\* run() under any solver
RunAny == \E x0 \in X0s, exit_code \in ExitCodes, installed \in BOOLEAN :
             run(x0, exit_code, installed)
BuildA == build_A
BuildB == build_b
Regenerate == \E gg \in [Ts -> GVals] : regenerate(gg)

\* every operation of the instance
Next == \/ SetValueBC
        \/ SetRateBC
        \/ RemoveBC
        \/ Reset
        \/ Run
        \/ BuildA
        \/ BuildB
        \/ Regenerate

InitOps == Init /\ max_ops = MaxOps
Spec == InitOps /\ [][Next]_vars

\* the boundary condition store alone, under the default settings, with every
\* shape of arguments
NextBC == \/ SetValueBCAny
          \/ SetRateBCAny
          \/ RemoveBC
          \/ Reset

InitBC == InitOps /\ settings.cache_A /\ settings.cache_b

SpecBC == InitBC /\ [][NextBC]_vars

\* the solver and the operations that read the solution, under the default
\* caching
\* (naive substitution of the row of pore p: the matrix is not symmetric)
NaiveRow(A, p) ==
    [i \in Ps |-> [j \in Ps |->
        IF i = p THEN (IF j = p THEN A[p][p] ELSE 0) ELSE A[i][j]]]
\* the matrices and vectors a caller hands to _solve or to the setter
CallerMatrices == {Laplacian(g), NaiveRow(Laplacian(g), 0)}
CallerVectors == {[p \in Ps |-> IF p = 0 THEN Scale ELSE 0]}
SetSolver == \E solver_family \in Families \cup {"None"},
                solver_type \in SolverTypes \cup {"None"} :
                set_solver(solver_family, solver_type)
SolveAny == \E A \in {NoObj} \cup CallerMatrices, b \in {NoObj} \cup CallerVectors,
               x0 \in X0s, exit_code \in ExitCodes, installed \in BOOLEAN :
               solve(A, b, x0, exit_code, installed)
SetA == \E A \in CallerMatrices : set_A(A)

NextSolve == \/ SetSolver
             \/ SetValueBC
             \/ RunAny
             \/ SolveAny
             \/ SetA

SpecSolve == InitBC /\ [][NextSolve]_vars

\* the operations that read the solution, under the default settings; the BCs
\* are set at the two ends of the chain, with values 0 and 1 among them
EndPoreSeqs == {<<0>>, <<Np - 1>>, <<0, Np - 1>>, <<Np - 1, 0>>}
EndValueSeqs == {<<0>>, <<1>>, <<1, 0>>, <<0, 1>>}
RatePores == {<<>>, <<0>>, <<Np - 1>>, <<1, 2>>}
RateThroats == {<<>>, <<0>>, <<0, 1>>}
RateModes == {"group", "single"}

SetValueBCEnds == \E pores \in EndPoreSeqs, values \in EndValueSeqs, mode \in Modes :
                     set_value_BC(pores, values, mode)
SetRateBCOne == \E p \in Ps, v \in Vals : set_rate_BC(<<p>>, <<v>>, "merge")
Results == results
\* X: the numbers of the quantity field
RateOn(X) == \E pores \in RatePores, throats \in RateThroats, mode \in RateModes :
                rate(X, pores, throats, mode)
Rate == RateOn(FieldValues(quantity))
CalcEffPropOn(X) ==
    \E inlets \in RatePores, none \in BOOLEAN, geometry \in 0 .. 1 :
        _calc_eff_prop(X, inlets, none, geometry, geometry)
CalcEffProp == CalcEffPropOn(FieldValues(quantity))

NextRead == \/ SetValueBCEnds
            \/ SetRateBCOne
            \/ Run
            \/ Results
            \/ Rate
            \/ CalcEffProp
            \/ Reset
            \/ Regenerate

SpecRead == InitBC /\ [][NextRead]_vars

\* the chain with a BC at each end: set the BCs, run, read the rate
NextChain == \/ SetValueBCEnds
             \/ Run
             \/ Rate

InitChain == /\ Init /\ max_ops = ChainOps
             /\ settings.cache_A /\ settings.cache_b

SpecChain == InitChain /\ [][NextChain]_vars

\* ------------------------------------------------------------ sanity
TypeOK ==
    /\ bc_value \in [Ps -> {NaN} \cup (0 .. MaxVal)]
    /\ \A p \in Ps : bc_rate[p] = NaN \/ bc_rate[p] \in 1 .. (MaxOps * MaxVal)
    /\ A_ref \in {"none", "work"}
    /\ b_ref \in {"none", "work"}
    /\ A_ref = "work" =>
          SumOver(Ps, diagonal(matrices.work)) % Np = 0

\* ------------------------------------------------------------ the claims
InSet(pores) == {pores[k] : k \in DOMAIN pores}
RunDone == call.op = "run" /\ call.err # "phase" /\ ~call.direct

\* C1: the (A, b) a run assembles is the BC store's content applied to the
\* cached pure matrix and zero vector, whatever earlier runs applied.
C1_RunAppliesToFreshCopy ==
    RunDone =>
        LET e == ValueElimination(matrices.pure,
                                  RateIntoB(vectors.pure, bc_rate), bc_value)
        IN  matrices[A_ref] = e.A /\ vectors[b_ref] = e.b

\* C2: once built, the cached pure vector is all zeros and the cached pure
\* matrix is the symmetric, zero-row-sum Laplacian of the conductance read at
\* its build.
C2_PureNeverModified ==
    /\ pure_b_ref # "none" => vectors.pure = [p \in Ps |-> 0]
    /\ pure_A_ref # "none" =>
          /\ \A i, j \in Ps : matrices.pure[i][j] = matrices.pure[j][i]
          /\ \A i \in Ps : SumOver(Ps, matrices.pure[i]) = 0
          /\ matrices.pure = Laplacian(built_g)

C2_Witness ==
    /\ call.op = "run" /\ call.err = ""
    /\ pure_A_ref = "pure" /\ pure_b_ref = "pure"
    /\ A_ref = "work" /\ b_ref = "work"
    /\ \E p \in Ps : isfinite(bc_value[p])
    /\ matrices.work # matrices.pure
    /\ vectors.work # vectors.pure

\* C3: after an overwrite call with a scalar v on the pores P, the array of
\* that kind holds v on P and is unset everywhere else.
C3_OverwriteExact ==
    [][(call'.mode = "overwrite" /\ call'.size = 1) =>
       \A pores \in PoreSeqs, v \in Vals :
         LET want == [p \in Ps |-> IF p \in InSet(pores) THEN v ELSE NaN]
         IN  /\ set_value_BC(pores, <<v>>, "overwrite") => bc_value' = want
             /\ set_rate_BC(pores, <<v>>, "overwrite") => bc_rate' = want]_vars

\* C4: a merge call of set_rate_BC with a scalar v adds v to the rate of every
\* given pore that has one, assigns v to the given pores that have none, and
\* leaves the other pores' rates as they were.
C4_MergeRateAccumulates ==
    [][(call'.op = "set_rate_BC" /\ call'.mode = "merge" /\ call'.size = 1) =>
       \A pores \in PoreSeqs, v \in Vals :
         (Len(pores) = call'.npores /\ set_rate_BC(pores, <<v>>, "merge")) =>
            /\ call'.err = ""
            /\ \A p \in Ps :
                  bc_rate'[p] = IF p \notin InSet(pores) THEN bc_rate[p]
                                ELSE IF bc_rate[p] = NaN THEN v
                                ELSE bc_rate[p] + v]_vars

C4_Witness ==
    /\ call.op = "set_rate_BC" /\ call.mode = "merge" /\ call.size = 1
    /\ call.err = "" /\ nops = 2
    /\ \E p, q \in Ps : bc_rate[p] > MaxVal /\ bc_rate[q] \in Vals

\* C5: set_rate_BC with a vector of two or more values, as many as the pores
\* given, succeeds and pores[k] receives values[k] (added to its rate under
\* merge when it has one).
C5_RateVectorAccepted ==
    [][(call'.op = "set_rate_BC" /\ call'.size >= 2) =>
       \A pores \in PoreSeqs, values \in ValueSeqs, mode \in Modes :
         (Len(values) >= 2 /\ Len(values) = Len(pores)
             /\ set_rate_BC(pores, values, mode)) =>
            /\ call'.err = ""
            /\ \A k \in DOMAIN pores :
                  bc_rate'[pores[k]] =
                     IF mode = "merge" /\ bc_rate[pores[k]] # NaN
                     THEN bc_rate[pores[k]] + values[k]
                     ELSE values[k]]_vars

\* C6: a merge call of set_value_BC with a scalar v leaves v at every given
\* pore, the other pores' values as they were, and the rate array unchanged.
C6_MergeValueLastWriteWins ==
    [][(call'.op = "set_value_BC" /\ call'.mode = "merge" /\ call'.size = 1) =>
       \A pores \in PoreSeqs, v \in Vals :
         (Len(pores) = call'.npores /\ set_value_BC(pores, <<v>>, "merge")) =>
            /\ call'.err = ""
            /\ bc_value' = [p \in Ps |-> IF p \in InSet(pores) THEN v
                                         ELSE bc_value[p]]
            /\ bc_rate' = bc_rate]_vars

C6_Witness ==
    /\ call.op = "set_value_BC" /\ call.mode = "merge" /\ call.size = 1
    /\ call.err = ""
    /\ \E p, q \in Ps : /\ isfinite(bc_value[p]) /\ isfinite(bc_value[q])
                        /\ bc_value[p] # bc_value[q]
    /\ \E p \in Ps : isfinite(bc_rate[p])

\* C7: a BC-setting call with more than one value and a number of values other
\* than the number of pores raises and leaves both arrays as they were.
C7_SizeMismatchRaises ==
    [][(/\ call'.op \in {"set_value_BC", "set_rate_BC"}
        /\ call'.size > 1
        /\ call'.size # call'.npores) =>
            /\ call'.err # ""
            /\ bc_value' = bc_value
            /\ bc_rate' = bc_rate]_vars

C7_Witness ==
    /\ call.op \in {"set_value_BC", "set_rate_BC"}
    /\ call.mode = "overwrite" /\ call.size > 1 /\ call.err = "size"
    /\ \E p \in Ps : isfinite(bc_value[p])
    /\ \E p \in Ps : isfinite(bc_rate[p])

\* C8: remove_BC unsets the entries of the named kinds at the given pores (all
\* pores when none are given, both kinds for 'all'), leaves every other entry
\* of both arrays as it was, and raises nothing.
C8_RemoveExact ==
    [][call'.op = "remove_BC" =>
       \A none \in BOOLEAN, bctype \in {call'.mode}, pores \in SortedPores :
         remove_BC(pores, none, bctype) =>
            LET P == IF none THEN Ps ELSE InSet(pores)
            IN  /\ call'.err = ""
                /\ \A p \in Ps :
                      /\ bc_value'[p] =
                            IF p \in P /\ bctype \in {"all", "value"}
                            THEN NaN ELSE bc_value[p]
                      /\ bc_rate'[p] =
                            IF p \in P /\ bctype \in {"all", "rate"}
                            THEN NaN ELSE bc_rate[p]]_vars

C8_Witness ==
    /\ call.op = "remove_BC" /\ call.mode = "all" /\ nops = 3
    /\ \E p, q \in Ps : /\ ~isfinite(bc_value[p]) /\ ~isfinite(bc_rate[p])
                        /\ isfinite(bc_value[q]) /\ isfinite(bc_rate[q])

\* C9: no pore holds a finite Value entry and a finite Rate entry at once.
C9_NoPoreWithBothKinds ==
    \A p \in Ps : ~(isfinite(bc_value[p]) /\ isfinite(bc_rate[p]))

\* C10: after every run, each pore i with a Value BC has A[i,i] equal to the
\* mean of the diagonal of the pure matrix, and zeros elsewhere in row i and
\* column i.
C10_EliminatedRowsOnEveryRun ==
    RunDone =>
        \A i \in Ps : isfinite(bc_value[i]) =>
            /\ Np * matrices[A_ref][i][i] = SumOver(Ps, diagonal(matrices.pure))
            /\ \A j \in Ps \ {i} : /\ matrices[A_ref][i][j] = 0
                                   /\ matrices[A_ref][j][i] = 0

\* C11: whatever Value and Rate BCs are applied, the working matrix is
\* symmetric.
C11_WorkingSymmetric ==
    A_ref # "none" =>
        \A i, j \in Ps : matrices[A_ref][i][j] = matrices[A_ref][j][i]

C11_Witness ==
    /\ RunDone /\ call.err = ""
    /\ \E p, q \in Ps : /\ isfinite(bc_value[p]) /\ ~isfinite(bc_value[q])
                        /\ matrices.pure[p][q] # 0
                        /\ matrices[A_ref][p][q] = 0
    /\ \E p \in Ps : isfinite(bc_rate[p])

\* C12: after a run has applied the BCs, b[i] = value[i] * f at every pore i
\* with a Value BC (f the mean of the diagonal of the pure matrix), and at
\* every other pore k, b[k] is its rate (0 without a Rate BC) minus the sum
\* over the Value-BC pores j of A_pure[k,j] * value[j].
C12_RhsAfterApply ==
    RunDone =>
        LET A_pure == matrices.pure
            b == vectors[b_ref]
            ind == {p \in Ps : isfinite(bc_value[p])}
        IN  \A k \in Ps :
              IF k \in ind
              THEN Np * b[k] = bc_value[k] * SumOver(Ps, diagonal(A_pure))
              ELSE b[k] = (IF isfinite(bc_rate[k]) THEN Scale * bc_rate[k] ELSE 0)
                          - SumOver(ind, [j \in Ps |-> A_pure[k][j] * bc_value[j]])

\* C13: when run or _solve has invoked one of scipy's iterative solvers, every
\* non-zero status makes the call raise the 'did not converge' error with that
\* status, and the call raises nothing only when the status is zero.
C13_NonZeroStatusRaises ==
    (call.op \in {"run", "_solve"} /\ solver_call.invoked
        /\ solver_call.iterative) =>
            /\ solver_call.status # 0 =>
                  call.err = DidNotConverge(solver_call.status)
            /\ call.err = "" => solver_call.status = 0

\* C14: when the solver type is 'cg' and the matrix being solved (the A handed
\* to _solve, or the working A of the instance when none is handed over) is
\* not symmetric, the call raises the symmetry error and invokes no backend.
C14_AsymmetricCGFailsFast ==
    [][(call'.op \in {"run", "_solve"} /\ settings.solver_type = "cg") =>
       \A x0 \in X0s, exit_code \in ExitCodes, installed \in BOOLEAN :
         /\ (run(x0, exit_code, installed)
               /\ ~is_symmetric(matrices'[A_ref'])) =>
                  (call'.err = "symmetry" /\ ~solver_call'.invoked)
         /\ \A A \in {NoObj} \cup CallerMatrices, b \in {NoObj} \cup CallerVectors :
               (solve(A, b, x0, exit_code, installed)
                  /\ ~is_symmetric(IF A = NoObj THEN matrices'[A_ref'] ELSE A)) =>
                     (call'.err = "symmetry" /\ ~solver_call'.invoked)]_vars

\* C15: rate called with both pores and throats, or with neither, raises the
\* input error; it returns a value only when exactly one of them is non-empty.
C15_RateNeedsExactlyOne ==
    call.op = "rate" =>
        /\ (call.npores > 0 /\ call.size > 0) => call.err = "input"
        /\ (call.npores = 0 /\ call.size = 0) => call.err = "input"
        /\ ret.kind = "rate" => ((call.npores > 0) # (call.size > 0))

\* C16: on a solved network, for every set X of pores that is neither empty
\* nor all pores, the group rate of X is the negative of the group rate of the
\* other pores, and the per-pore net rates sum to zero over all pores.
NegativeOfComplement(X, S) ==
    LET r1 == RateResult(X, SortedSeq(S), <<>>, "group")
        r2 == RateResult(X, SortedSeq(Ps \ S), <<>>, "group")
    IN  /\ r1.kind = "rate" /\ r2.kind = "rate"
        /\ r1.den = r2.den
        /\ r1.num[1] = -r2.num[1]

Conserved(X) ==
    X.den # 0 =>
        /\ \A S \in (SUBSET Ps) \ {{}, Ps} : NegativeOfComplement(X, S)
        /\ SumOver(Ps, PoreRates(ThroatRates(X.num, g))) = 0

C16_FluxConservation ==
    (quantity.present /\ settings.phase) => Conserved(FieldValues(quantity))

C16_Witness ==
    /\ call.op = "rate" /\ call.mode = "group" /\ call.npores > 0
    /\ call.err = "" /\ ret.den # 0 /\ ret.num[1] # 0

\* the chain has unit conductances, Value BC 1 at pore 0 and 0 at the last
\* pore, and no other BC
UnitG == [t \in Ts |-> 1]
ChainBCs ==
    /\ bc_value = [p \in Ps |-> IF p = 0 THEN 1 ELSE IF p = Np - 1 THEN 0 ELSE NaN]
    /\ bc_rate = AllNaN
    /\ g = UnitG /\ built_g = UnitG
\* the linear interpolation between the ends: [1, 3/4, 1/2, 1/4, 0] for 5 pores
LinearField == [num |-> [p \in Ps |-> Np - 1 - p], den |-> Np - 1]

\* C17: a run on the unit chain with Value BC 1 at pore 0 and 0 at the last
\* pore stores the linearly interpolated field.
C17_ChainLinear ==
    (call.op = "run" /\ call.err = "" /\ ChainBCs) =>
        FieldValues(quantity) = LinearField

\* C18 (as stated): on the unit chain with Value BC 1 at pore 0 and 0 at the
\* last pore, after a run, rate(pores=[0]) returns 1.
C18_RateAtInletIsOne ==
    [][(call'.op = "rate" /\ call'.npores = 1 /\ call'.err = ""
          /\ call.op = "run" /\ call.err = "" /\ ChainBCs) =>
       \A mode \in RateModes :
          rate(FieldValues(quantity), <<0>>, <<>>, mode) =>
             (ret'.den # 0 /\ ret'.num = <<ret'.den>>)]_vars

\* C18 (amended): on the unit chain with a usable quantity field X,
\* rate(pores=[0]) returns X[0] - X[1]; with the linearly interpolated field
\* from 1 at pore 0 to 0 at the last pore that is 1 / (Np - 1), 0.25 for 5
\* pores.
InletDrop(X, r) ==
    /\ r.den # 0
    /\ r.num[1] * X.den = (X.num[0] - X.num[1]) * r.den
    /\ X = LinearField => (r.num = <<1>> /\ r.den = Np - 1)

C18_RateAtInlet ==
    [][(call'.op = "rate" /\ call'.npores = 1 /\ call'.err = ""
          /\ g = UnitG /\ FieldValues(quantity).den # 0) =>
       \A mode \in RateModes :
          rate(FieldValues(quantity), <<0>>, <<>>, mode) =>
             InletDrop(FieldValues(quantity), ret')]_vars

C18_Witness ==
    /\ call.op = "rate" /\ call.npores = 1 /\ call.mode = "group"
    /\ call.err = "" /\ ChainBCs
    /\ ret = [kind |-> "rate", num |-> <<1>>, den |-> Np - 1]

ReadOps == {"results", "_calc_eff_prop"}

\* C19 (as stated): results() and the effective property fail and change no
\* state while no quantity field is present, and both succeed once a
\* successful run has stored one.
C19_ReadsNeedField ==
    [][call'.op \in ReadOps =>
         IF quantity.present
         THEN call'.err = ""
         ELSE /\ call'.err # ""
              /\ UNCHANGED <<bc_value, bc_rate, g, settings, sysVars,
                             quantity>>]_vars

\* C19 (amended): results() and the effective property fail and change no
\* state while no quantity field is present; once a successful run has stored
\* one, results() succeeds and the effective property no longer fails for
\* want of a quantity field.
C19_ReadsNeedFieldOnly ==
    [][call'.op \in ReadOps =>
         IF quantity.present
         THEN /\ call'.err # "not run"
              /\ call'.op = "results" =>
                     (call'.err = "" /\ ret' = [kind |-> "field",
                                                field |-> quantity])
         ELSE /\ call'.err = IF call'.op = "results" THEN "key" ELSE "not run"
              /\ ret' = NoRet
              /\ UNCHANGED <<bc_value, bc_rate, g, settings, sysVars,
                             quantity>>]_vars

\* the effective property was asked for after a run and a reset of the results
C19_Witness ==
    /\ call.op = "_calc_eff_prop" /\ call.err = "not run"
    /\ A_ref # "none" /\ ~quantity.present

\* C20: a build request with cache_A enabled and a cached pure matrix leaves
\* the cache as it is and makes the working matrix a new object equal to it,
\* whatever the conductance is by then; with cache_A disabled it rebuilds the
\* pure matrix from the conductance current at the request and makes the
\* working matrix a new object equal to that.
C20_BuildCaching ==
    [][call'.op = "_build_A" =>
         /\ (settings.cache_A /\ pure_A_ref # "none") =>
               /\ call'.err = ""
               /\ pure_A_ref' = pure_A_ref
               /\ matrices'.pure = matrices.pure
               /\ built_g' = built_g
               /\ A_ref' = "work"
               /\ matrices'.work = matrices.pure
         /\ (~settings.cache_A /\ call'.err = "") =>
               /\ pure_A_ref' = "pure"
               /\ matrices'.pure = Laplacian(g)
               /\ built_g' = g
               /\ A_ref' = "work"
               /\ matrices'.work = Laplacian(g)]_vars

\* a build with the cache enabled after the conductance has changed
C20_Witness ==
    /\ call.op = "_build_A" /\ call.err = ""
    /\ settings.cache_A /\ built_g # g
    /\ A_ref = "work" /\ matrices.work = Laplacian(built_g)

SolveErrors == {"symmetry", "missing"} \cup
               {DidNotConverge(exit_code) : exit_code \in ExitCodes}

\* C22: a run that raises (symmetry error, missing backend, non-convergence,
\* or any other error) leaves the quantity field as it was, present or
\* absent; a run that raises nothing stores a field, the solution of the
\* working system it assembled.
C22_FailedRunKeepsField ==
    [][call'.op = "run" =>
         IF call'.err = ""
         THEN /\ quantity'.present
              /\ quantity'.A = matrices'[A_ref']
              /\ quantity'.b = vectors'[b_ref']
         ELSE quantity' = quantity]_vars

\* a run failed in the solve on an instance that holds the field of an
\* earlier run
C22_Witness ==
    /\ call.op = "run" /\ call.err \in SolveErrors
    /\ solver_call.invoked /\ solver_call.status > 0
    /\ quantity.present

\* the pores that hold a Value and a Rate entry
BothKinds == {p \in Ps : isfinite(bc_value[p]) /\ isfinite(bc_rate[p])}
\* the Rate entries without those of the pores that hold both kinds
RatesAlone == [p \in Ps |-> IF p \in BothKinds THEN NaN ELSE bc_rate[p]]
\* the matrix the BCs of a run are applied to
AppliedTo == LET s1 == _get_A(_get_b(Sys)) IN s1.matrices[s1.A_ref]
\* the system a run assembles from the present one under the Rate entries
\* `rates` and the Value entries of the instance
AssembledUnder(rates) ==
    LET s1 == _get_A(_get_b(Sys))
    IN  ValueElimination(s1.matrices[s1.A_ref],
                         RateIntoB(s1.vectors[s1.b_ref], rates), bc_value)

\* C23: a run on an instance where some pore holds a Value and a Rate entry
\* assembles, at every such pore i, a row and a column that are zero off the
\* diagonal, A[i,i] = f and b[i] = value[i] * f, with f the mean of the
\* diagonal of the matrix the BCs are applied to; the system it assembles is
\* the one it would assemble if those pores held no Rate entry.
C23_ValueWinsOverRate ==
    [][(call'.op = "run" /\ call'.err = "" /\ BothKinds # {}) =>
         /\ \A i \in BothKinds :
               /\ matrices'[A_ref'][i][i] = mean(diagonal(AppliedTo))
               /\ vectors'[b_ref'][i] = bc_value[i] * mean(diagonal(AppliedTo))
               /\ \A j \in Ps \ {i} : /\ matrices'[A_ref'][i][j] = 0
                                      /\ matrices'[A_ref'][j][i] = 0
         /\ matrices'[A_ref'] = AssembledUnder(RatesAlone).A
         /\ vectors'[b_ref'] = AssembledUnder(RatesAlone).b]_vars

\* a run on an instance with a pore of both kinds whose rate differs from
\* what b holds there
C23_Witness ==
    /\ call.op = "run" /\ call.err = ""
    /\ \E i \in BothKinds : /\ bc_value[i] # 0
                            /\ vectors[b_ref][i] # Scale * bc_rate[i]
                            /\ vectors[b_ref][i] = bc_value[i] * matrices[A_ref][i][i]
====
